---------------------------- MODULE Spec2Model ----------------------------
(***************************************************************************)
(* A model of pyLegoMario's Mario class (src/pyLegoMario/mario.py): the    *)
(* asyncio tasks of one Mario object (connect, check_connection_loop,      *)
(* disconnect, the command methods), the transport they drive (bleak), the *)
(* notification handler _handle_events and the event hook registries.      *)
(*                                                                         *)
(* A task is a coroutine of the class scheduled on the event loop.  Its pc *)
(* names the await it is suspended at; one step of a task resumes it: the  *)
(* awaited transport call completes (with the outcome the transport gives  *)
(* at that moment) and the code runs on to its next await or to its end.   *)
(* `await self.disconnect()` runs disconnect inside the awaiting task, so  *)
(* the pcs d_write and d_disc occur in every kind of task that calls it.   *)
(***************************************************************************)
EXTENDS Integers, Sequences, FiniteSets, Bags, TLC

VARIABLES
    run,            \* self._run
    autoReconnect,  \* self._autoReconnect
    client,         \* self._client: None or a BleakClient
    defaultVolume,  \* self.defaultVolume: NoVolume or an int
    linkUp,         \* the BleakClients whose connection is up (is_connected)
    notifying,      \* the connected BleakClients with start_notify done
    tasks,          \* the coroutines of this Mario scheduled on the event loop
    failedScans,    \* the scans made so far by connect() alone, none of which found a device
    halted,         \* disconnect() has run its `self._run = False`
    ground,         \* self.ground
    pants,          \* self.pants
    acceleration,   \* self.acceleration
    recentTile,     \* self.recentTile
    hooks,          \* the four hook lists of ALLHOOKS, by category
    regClock,       \* number of hook registrations made so far
    last            \* what the last step did: operation, outcome, transport call, hook calls

vars == <<run, autoReconnect, client, defaultVolume, linkUp, notifying, tasks,
          failedScans, halted, ground, pants, acceleration, recentTile, hooks, regClock, last>>

sessionVars ==
    <<run, autoReconnect, client, defaultVolume, linkUp, notifying, tasks, failedScans, halted>>
cacheVars == <<ground, pants, acceleration, recentTile>>
hookVars == <<hooks, regClock>>

---------------------------------------------------------------------------
\* Bounds of the model.

\* BleakClient objects that exist at once (referenced or connected).
MaxClients == 2
\* Coroutines scheduled on the event loop at once.
MaxTasks == 3
\* Scans that are counted while no scan has found a device.
MaxFailedScans == 5
\* Hook registrations made in one run.
MaxRegs == 3
\* Tasks of command methods pending at once.
MaxCommands == 1
\* Hooks given to the constructor for one category.
MaxListed == 3

---------------------------------------------------------------------------
\* Values.

None == 0
NoVolume == -1000
\* failedScans when the scans are not counted: a scan has found a device, or
\* the caller has called disconnect().
Uncounted == -1
NoneStr == "<None>"
NoAcc == <<>>
Clients == 1..MaxClients

\* A Python list index: data[i], i counted from 0.
At(data, i) == data[i + 1]

HexDigits == <<"0", "1", "2", "3", "4", "5", "6", "7", "8", "9", "a", "b", "c", "d", "e", "f">>

\* Python's hex() of a byte.
hex(n) ==
    IF n < 16 THEN "0x" \o HexDigits[n + 1]
    ELSE "0x" \o HexDigits[(n \div 16) + 1] \o HexDigits[(n % 16) + 1]

\* dict.get(key, default) of a table given as a function.
Get(table, key, default) == IF key \in DOMAIN table THEN table[key] ELSE default

---------------------------------------------------------------------------
\* LEGO_MARIO_DATA: the tables and commands mario.py imports.

HEX_TO_RGB_TILE == (184 :> "Start") @@ (183 :> "Goal")
HEX_TO_COLOR_TILE == (21 :> "Red") @@ (19 :> "White")
HEX_TO_PANTS == (33 :> "Mario") @@ (0 :> "None")
HEX_TO_HUB_ACTIONS == (48 :> "Hub Will Switch Off") @@ (49 :> "Hub Will Disconnect")

SUBSCRIBE_IMU_COMMAND == <<10, 0, 65, 0, 0, 5, 0, 0, 0, 1>>
SUBSCRIBE_RGB_COMMAND == <<10, 0, 65, 1, 0, 5, 0, 0, 0, 1>>
SUBSCRIBE_PANTS_COMMAND == <<10, 0, 65, 2, 0, 5, 0, 0, 0, 1>>
REQUEST_RGB_COMMAND == <<5, 0, 33, 1, 0>>
MUTE_COMMAND == <<6, 0, 1, 18, 1, 0>>
DISCONNECT_COMMAND == <<4, 0, 2, 2>>
TURN_OFF_COMMAND == <<4, 0, 2, 1>>

---------------------------------------------------------------------------
\* The event hooks.

Categories == {"acc", "pants", "tile", "log"}
Hooks == {"A", "B"}
NoHooks == [cat \in Categories |-> <<>>]

\* What one call of handle_events works on: the cached values, the hook lists,
\* the hook calls made so far (calls), the disconnect tasks created (spawn) and
\* how the call ended (res).
Dispatch(g, p, a, r, hk) ==
    [ground |-> g, pants |-> p, acceleration |-> a, recentTile |-> r, hooks |-> hk,
     calls |-> <<>>, spawn |-> 0, res |-> "ok"]

\* The cached value an event of category ev replaces.
CacheOf(D, ev) ==
    CASE ev = "tile" -> D.ground
      [] ev = "acc" -> D.acceleration
      [] ev = "pants" -> D.pants
      [] OTHER -> NoneStr

\* list.remove(x): the first item equal to x goes.
RECURSIVE list_remove(_, _)
list_remove(list, h) ==
    IF list = <<>> THEN <<>>
    ELSE IF Head(list).h = h THEN Tail(list)
    ELSE <<Head(list)>> \o list_remove(Tail(list), h)

\* Mario.RemoveEventsHook(funcs) for a callable: for hooktype in self.ALLHOOKS:
\* if funcs in hooktype: hooktype.remove(funcs)
RemoveEventsHook(hk, h) == [cat \in Categories |-> list_remove(hk[cat], h)]

\* The hooks of the user that unregister themselves when they are called:
\* def hook(mario, *args): mario.RemoveEventsHook(hook)
SelfRemoving == {"U"}

\* One hook is called: func(self, ...).  The call is recorded with the event it
\* is about and the cached value the hook finds in self at that moment; a
\* self-removing hook then takes itself out of the lists.
CallHook(D, cat, e, ev, payload) ==
    [D EXCEPT !.calls = Append(@, [cat |-> cat, h |-> e.h, n |-> e.n, ev |-> ev,
                                   payload |-> payload, seen |-> CacheOf(D, ev)]),
              !.hooks = IF e.h \in SelfRemoving THEN RemoveEventsHook(@, e.h) ELSE @]

\* for func in <list>: func(self, ...)   (a Python list iterator: by index)
RECURSIVE ForEachHook(_, _, _, _, _)
ForEachHook(D, cat, i, ev, payload) ==
    IF i > Len(D.hooks[cat]) THEN D
    ELSE ForEachHook(CallHook(D, cat, D.hooks[cat][i], ev, payload), cat, i + 1, ev, payload)

_log(D, ev, payload) == ForEachHook(D, "log", 1, ev, payload)

\* The tile hooks called before self.ground is set.
callTileHooks_then_set(D, tile) ==
    [ForEachHook(D, "tile", 1, "tile", tile) EXCEPT !.ground = tile]

_callTileHooks(D, tile) ==
    ForEachHook([D EXCEPT !.ground = tile], "tile", 1, "tile", tile)

_callAccelerometerHooks(D, x, y, z) ==
    ForEachHook([D EXCEPT !.acceleration = <<x, y, z>>], "acc", 1, "acc", <<x, y, z>>)

_callPantsHooks(D, powerup) ==
    ForEachHook([D EXCEPT !.pants = powerup], "pants", 1, "pants", powerup)

\* The byte taken as it is.
signed_as_unsigned(char) == char

signed(char) == IF char > 127 THEN char - 256 ELSE char

Bytes == 0..255

\* HEX_TO_RGB_TILE.get(code, f"Unkown Tile Code: {hex(code)}") for every byte.
tile_name == [code \in Bytes |-> Get(HEX_TO_RGB_TILE, code, "Unkown Tile Code: " \o hex(code))]

\* HEX_TO_COLOR_TILE.get(code, f"Unkown Color: {hex(code)}") for every byte.
color_name == [code \in Bytes |-> Get(HEX_TO_COLOR_TILE, code, "Unkown Color: " \o hex(code))]

\* HEX_TO_PANTS.get(code, "Unkown") for every byte.
pants_name == [code \in Bytes |-> Get(HEX_TO_PANTS, code, "Unkown")]

\* An index past the end of data: IndexError leaves _handle_events.
Raise(D) == [D EXCEPT !.res = "IndexError"]

\* The camera data decoded with no test for the idle value.
handle_camera_no_idle(data, D) ==
    IF Len(data) <= 6 THEN Raise(D)
    ELSE IF At(data, 5) = 0
    THEN LET tile == tile_name[At(data, 4)]
         IN  _callTileHooks(_log([D EXCEPT !.recentTile = tile], "tile", tile), tile)
    ELSE IF At(data, 5) = 255
    THEN LET color == color_name[At(data, 6)]
         IN  _callTileHooks(_log(D, "tile", color), color)
    ELSE D

\* data[3] == 0x01: camera sensor data.
handle_camera(data, D) ==
    IF Len(data) <= 6 THEN Raise(D)                       \* data[5] == data[6] == 0xff
    ELSE IF At(data, 5) = At(data, 6) /\ At(data, 6) = 255
    THEN _log(D, "none", NoneStr)
    ELSE IF At(data, 5) = 0
    THEN LET tile == tile_name[At(data, 4)]
         IN  _callTileHooks(_log([D EXCEPT !.recentTile = tile], "tile", tile), tile)
    ELSE IF At(data, 5) = 255
    THEN LET color == color_name[At(data, 6)]
         IN  _callTileHooks(_log(D, "tile", color), color)
    ELSE D

\* data[3] == 0x00: accelerometer data.  data[4:6] == data[6:] compares slices,
\* which never raise.
handle_accelerometer(data, D) ==
    IF SubSeq(data, 5, IF Len(data) < 6 THEN Len(data) ELSE 6) = SubSeq(data, 7, Len(data))
    THEN _log(D, "none", NoneStr)
    ELSE IF Len(data) <= 4 THEN Raise(D)                  \* data[4]
    ELSE IF Len(data) <= 5 THEN Raise(D)                  \* data[5]
    ELSE IF Len(data) <= 6 THEN Raise(D)                  \* data[6]
    ELSE LET x == signed(At(data, 4))
             y == signed(At(data, 5))
             z == signed(At(data, 6))
         IN  _callAccelerometerHooks(_log(D, "acc", <<x, y, z>>), x, y, z)

\* data[3] == 0x02: pants data.
handle_pants(data, D) ==
    IF Len(data) <= 4 THEN Raise(D)                       \* data[4]
    ELSE LET powerup == pants_name[At(data, 4)]
         IN  _callPantsHooks(_log(D, "pants", powerup), powerup)

\* data[3] == 0x03: port 3 data.
handle_port3(data, D) ==
    IF Len(data) <= 4 THEN Raise(D)                       \* data[4]
    ELSE IF At(data, 4) # 19 THEN _log(D, "none", NoneStr)
    ELSE IF Len(data) <= 5 THEN Raise(D)                  \* data[5]
    ELSE IF At(data, 5) # 1 THEN _log(D, "none", NoneStr)
    ELSE IF Len(data) <= 6 THEN Raise(D)                  \* data[6]
    ELSE _log(D, "none", NoneStr)

\* data[2] == 0x45: a port value.
handle_port_value(data, D) ==
    IF Len(data) <= 3 THEN Raise(D)                       \* data[3]
    ELSE CASE At(data, 3) = 1 -> handle_camera(data, D)
           [] At(data, 3) = 0 -> handle_accelerometer(data, D)
           [] At(data, 3) = 2 -> handle_pants(data, D)
           [] At(data, 3) = 3 -> handle_port3(data, D)
           [] OTHER -> _log(D, "none", NoneStr)

\* Mario._handle_events(sender, data)
handle_events(data, D) ==
    IF Len(data) <= 2 THEN Raise(D)                       \* data[2]
    ELSE IF At(data, 2) = 69 THEN handle_port_value(data, D)
    ELSE IF At(data, 2) = 2
    THEN IF Len(data) <= 3 THEN Raise(D)                  \* data[3]
         ELSE LET L == _log(D, "none", NoneStr)
              IN  IF At(data, 3) = 49 THEN [L EXCEPT !.spawn = @ + 1] ELSE L
    ELSE IF At(data, 2) = 4
    THEN IF Len(data) <= 4 THEN Raise(D)                  \* data[4]
         ELSE _log(D, "none", NoneStr)
    ELSE IF At(data, 2) = 71
    THEN IF Len(data) <= 9 THEN Raise(D)                  \* data[3], data[4], data[9]
         ELSE _log(D, "none", NoneStr)
    ELSE IF At(data, 2) = 1 /\ Len(data) <= 4 THEN Raise(D)   \* data[4]
    ELSE _log(D, "none", NoneStr)

---------------------------------------------------------------------------
\* The tasks on the event loop.

\* A coroutine: which method (kind), the await it is suspended at (pc), the
\* locals `retries` (connect) and `client` or the client a pending transport
\* call was made on (c), the command of a pending write (cmd), its arguments,
\* and connect's local `client`, which it keeps while it awaits disconnect (own).
Task(kind, pc, retries, c, cmd, arg) ==
    [kind |-> kind, pc |-> pc, retries |-> retries, c |-> c, cmd |-> cmd, arg |-> arg,
     own |-> None]

NewTask(kind) == Task(kind, "start", 0, None, <<>>, <<>>)

NoTask == NewTask("none")

One(t) == SetToBag({t})

\* The session as one step of a task works on it; tasks holds the other tasks.
Session(t) ==
    [run |-> run, client |-> client, linkUp |-> linkUp, notifying |-> notifying,
     tasks |-> tasks (-) One(t), failedScans |-> failedScans, halted |-> halted,
     res |-> "ok"]

Put(S, t) == [S EXCEPT !.tasks = @ (+) One(t)]

NoIO == [call |-> "none", c |-> None, cmd |-> <<>>]
IO(call, c, cmd) == [call |-> call, c |-> c, cmd |-> cmd]

Did(op, at, arg, res, io, calls) ==
    [op |-> op, at |-> at, arg |-> arg, res |-> res, io |-> io, calls |-> calls]

\* BleakClient objects nothing refers to any more and that hold no connection.
FreeClients ==
    {c \in Clients : c \notin linkUp /\ c # client
                      /\ \A t \in BagToSet(tasks) : t.c # c /\ t.own # c}

Min(S) == CHOOSE x \in S : \A y \in S : x <= y

CommandKinds == {"write", "request_port_value", "turn_off"}

\* The tasks of command methods in a bag of tasks.
Commands(bag) == BagCardinality([t \in {u \in BagToSet(bag) : u.kind \in CommandKinds} |-> bag[t]])

\* The step's result becomes the state.
Commit(S, did) ==
    /\ BagCardinality(S.tasks) <= MaxTasks
    /\ Commands(S.tasks) <= MaxCommands
    /\ run' = S.run
    /\ client' = S.client
    /\ linkUp' = S.linkUp
    /\ notifying' = S.notifying \cap S.linkUp
    /\ tasks' = S.tasks
    /\ failedScans' = S.failedScans
    /\ halted' = S.halted
    /\ last' = did
    /\ UNCHANGED <<autoReconnect, defaultVolume, cacheVars, hookVars>>

---------------------------------------------------------------------------
\* Mario.disconnect, as run inside the task t that awaits it.

\* disconnect has returned to the code that awaited it: check_connection_loop
\* goes on to its sleep; connect, request_port_value and turn_off return.
after_disconnect(S, t) ==
    IF t.kind = "check_connection_loop"
    THEN Put(S, [t EXCEPT !.pc = "sleep", !.c = None])
    ELSE S

\* if self._autoReconnect: create_task(self.connect()) else: self._run = False
disconnect_finish(S, t) ==
    after_disconnect(IF autoReconnect THEN Put(S, NewTask("connect"))
                     ELSE [S EXCEPT !.run = FALSE, !.halted = TRUE], t)

\* Entry: with a client the disconnect command is written to it (the task
\* suspends at d_write), without one there is nothing to await.
disconnect(S, t) ==
    IF S.client # None
    THEN Put(S, [t EXCEPT !.pc = "d_write", !.c = S.client, !.cmd = DISCONNECT_COMMAND])
    ELSE disconnect_finish(S, t)

\* The write has completed.  Done: `await self._client.disconnect()` reads
\* self._client again, and None has no attribute disconnect.  Failed
\* (BleakError): the handler clears self._client.
disconnect_written(S, t) ==
    IF t.c \in S.linkUp
    THEN IF S.client = None
         THEN [S EXCEPT !.res = "AttributeError"]
         ELSE Put(S, [t EXCEPT !.pc = "d_disc", !.c = S.client, !.cmd = <<>>])
    ELSE disconnect_finish([S EXCEPT !.client = None], t)

\* client.disconnect() has completed; self._client = None.
disconnect_closed(S, t) ==
    disconnect_finish([S EXCEPT !.linkUp = @ \ {t.c}, !.client = None], t)

---------------------------------------------------------------------------
\* The command methods.

\* The ports with port 5 among them.
PORTS_through_6 == {0, 1, 2, 3, 4, 5, 6}

\* The ports request_port_value asserts.
PORTS == {0, 1, 2, 3, 4, 6}

min(a, b) == IF a < b THEN a ELSE b
max(a, b) == IF a > b THEN a ELSE b

\* The volume clamped from below only.
clamp_volume_below(new_volume) == max(new_volume, 0)

\* new_volume = min(max(new_volume, 0), 100)
clamp_volume(new_volume) == min(max(new_volume, 0), 100)

\* bytearray([*MUTE_COMMAND[:5], new_volume])
volume_command(new_volume) == Append(SubSeq(MUTE_COMMAND, 1, 5), new_volume)

\* command = REQUEST_RGB_COMMAND; command[3] = port
port_value_command(port) == [REQUEST_RGB_COMMAND EXCEPT ![4] = port]

\* LEGO_MARIO_DATA.pifs_command: the port input format setup message, for an
\* enumerated port only.
pifs_command(port, mode, notifications) ==
    IF port \in PORTS
    THEN [ok |-> TRUE, cmd |-> <<10, 0, 65, port, mode, 1, 0, 0, 0, IF notifications THEN 1 ELSE 0>>]
    ELSE [ok |-> FALSE, cmd |-> <<>>]

\* Mario.set_volume: the write is handed to a task of its own.
set_volume(S, new_volume) ==
    IF S.client # None
    THEN Put(S, Task("write", "write", 0, S.client,
                     volume_command(clamp_volume(new_volume)), <<new_volume>>))
    ELSE S

\* Mario.port_setup
port_setup(S, port, mode, notifications) ==
    IF S.client # None
    THEN LET command == pifs_command(port, mode, notifications)
         IN  IF command.ok
             THEN Put(S, Task("write", "write", 0, S.client, command.cmd,
                              <<port, mode, IF notifications THEN 1 ELSE 0>>))
             ELSE [S EXCEPT !.res = "ValidationError"]
    ELSE S

\* Mario.request_port_value up to its await.
request_port_value(S, port) ==
    IF port \notin PORTS THEN [S EXCEPT !.res = "AssertionError"]
    ELSE IF S.client # None
    THEN Put(S, Task("request_port_value", "write", 0, S.client,
                     port_value_command(port), <<port>>))
    ELSE S

\* Mario.turn_off up to its await: self._client.write_gatt_char with no check
\* of self._client.
turn_off(S) ==
    IF S.client = None THEN [S EXCEPT !.res = "AttributeError"]
    ELSE Put(S, Task("turn_off", "write", 0, S.client, TURN_OFF_COMMAND, <<>>))

---------------------------------------------------------------------------
\* Mario.connect

\* The loop left after a fourth scan.
connect_loop_four(S, t, retries) ==
    IF ~S.run THEN disconnect(S, t)
    ELSE IF retries + 1 > 4 THEN disconnect(S, [t EXCEPT !.retries = retries + 1])
    ELSE Put(S, [t EXCEPT !.pc = "scan", !.retries = retries + 1])

\* The loop with retries never incremented.
connect_loop_uncounted(S, t, retries) ==
    IF ~S.run THEN disconnect(S, t)
    ELSE Put(S, [t EXCEPT !.pc = "scan", !.retries = retries])

\* while self._run: retries += 1; if retries > 3: break; ... discover()
\* and, out of the loop, await self.disconnect().
connect_loop(S, t, retries) ==
    IF ~S.run THEN disconnect(S, t)
    ELSE IF retries + 1 > 3 THEN disconnect(S, [t EXCEPT !.retries = retries + 1])
    ELSE Put(S, [t EXCEPT !.pc = "scan", !.retries = retries + 1])

\* The default volume set and no watch started.
connect_done_unwatched(S) ==
    IF defaultVolume # NoVolume THEN set_volume(S, defaultVolume) ELSE S

\* The subscriptions are written; the watch is started and the default volume set.
connect_done(S) ==
    LET W == Put(S, NewTask("check_connection_loop"))
    IN  IF defaultVolume # NoVolume THEN set_volume(W, defaultVolume) ELSE W

\* Mario.check_connection_loop: while self._client: if not is_connected: ...
check_connection(S, t) ==
    IF S.client = None THEN S
    ELSE IF S.client \notin S.linkUp THEN disconnect(S, t)
    ELSE Put(S, [t EXCEPT !.pc = "sleep"])

---------------------------------------------------------------------------
\* The steps of the tasks.

\* Nothing to report: a step of a task that ended in no exception, or a step
\* of the transport or the caller that calls nothing of Mario.
Quiet == Did("", "", <<>>, "ok", NoIO, <<>>)

\* A step of task t: the transport call it was suspended at (io) completes
\* and the task runs on.  The step is reported when an exception ends the task.
Step(t, S, io) ==
    \E R \in {S} :
        Commit(R, IF R.res = "ok" THEN Quiet ELSE Did(t.kind, t.pc, t.arg, R.res, io, <<>>))

\* connect starts: self._run = True; retries = 0.
connect_start(t) ==
    /\ t.kind = "connect" /\ t.pc = "start"
    /\ Step(t, connect_loop([Session(t) EXCEPT !.run = TRUE], t, 0), NoIO)

\* BleakScanner.discover() returns.  With a device named lego mario or lego
\* luigi a BleakClient is made for it and connected; with none the loop goes on.
connect_scan(t) ==
    /\ t.kind = "connect" /\ t.pc = "scan"
    /\ \E found \in BOOLEAN :
          IF found
          THEN /\ FreeClients # {}
               /\ Step(t, Put([Session(t) EXCEPT !.failedScans = Uncounted],
                              [t EXCEPT !.pc = "conn", !.c = Min(FreeClients), !.own = Min(FreeClients)]),
                       IO("scan", None, <<>>))
          ELSE /\ failedScans < MaxFailedScans
               /\ Step(t, connect_loop([Session(t) EXCEPT
                                          !.failedScans = IF @ = Uncounted THEN Uncounted ELSE @ + 1],
                                       t, t.retries),
                       IO("scan", None, <<>>))

\* client.connect() returns or raises.
connect_conn(t) ==
    /\ t.kind = "connect" /\ t.pc = "conn"
    /\ \E ok \in BOOLEAN :
          IF ok
          THEN Step(t, Put([Session(t) EXCEPT !.linkUp = @ \cup {t.c}, !.client = t.c],
                           [t EXCEPT !.pc = "notify"]),
                    IO("connect", t.c, <<>>))
          ELSE Step(t, disconnect(Session(t), t), IO("connect", t.c, <<>>))

\* client.start_notify(...) returns or raises.
connect_notify(t) ==
    /\ t.kind = "connect" /\ t.pc = "notify"
    /\ IF t.c \in linkUp
       THEN Step(t, Put([Session(t) EXCEPT !.notifying = @ \cup {t.c}],
                        [t EXCEPT !.pc = "imu", !.cmd = SUBSCRIBE_IMU_COMMAND]),
                 IO("start_notify", t.c, <<>>))
       ELSE Step(t, disconnect(Session(t), t), IO("start_notify", t.c, <<>>))

\* One of the three subscribe writes returns or raises.
connect_subscribe(t) ==
    /\ t.kind = "connect" /\ t.pc \in {"imu", "rgb", "pants"}
    /\ IF t.c \notin linkUp
       THEN Step(t, disconnect(Session(t), t), IO("write", t.c, t.cmd))
       ELSE CASE t.pc = "imu" ->
                   Step(t, Put(Session(t), [t EXCEPT !.pc = "rgb", !.cmd = SUBSCRIBE_RGB_COMMAND]),
                        IO("write", t.c, t.cmd))
              [] t.pc = "rgb" ->
                   Step(t, Put(Session(t), [t EXCEPT !.pc = "pants", !.cmd = SUBSCRIBE_PANTS_COMMAND]),
                        IO("write", t.c, t.cmd))
              [] t.pc = "pants" ->
                   Step(t, connect_done(Session(t)), IO("write", t.c, t.cmd))

\* check_connection_loop starts, or its sleep ends.
check_connection_loop(t) ==
    /\ t.kind = "check_connection_loop" /\ t.pc \in {"start", "sleep"}
    /\ Step(t, check_connection(Session(t), t), NoIO)

\* A task made of disconnect() starts.
disconnect_start(t) ==
    /\ t.kind = "disconnect" /\ t.pc = "start"
    /\ Step(t, disconnect(Session(t), t), NoIO)

\* In any task inside disconnect: the write of the disconnect command returns or raises.
disconnect_write(t) ==
    /\ t.pc = "d_write"
    /\ Step(t, disconnect_written(Session(t), t), IO("write", t.c, t.cmd))

\* In any task inside disconnect: client.disconnect() returns.
disconnect_disc(t) ==
    /\ t.pc = "d_disc"
    /\ Step(t, disconnect_closed(Session(t), t), IO("disconnect", t.c, <<>>))

\* The connection of a client drops.
link_drop ==
    \E c \in linkUp :
    \E R \in {[Session(NoTask) EXCEPT !.linkUp = @ \ {c}]} : Commit(R, Quiet)

\* The caller turns auto-reconnect off.
disable_auto_reconnect ==
    /\ autoReconnect
    /\ autoReconnect' = FALSE
    /\ last' = Quiet
    /\ UNCHANGED <<run, client, defaultVolume, linkUp, notifying, tasks, failedScans,
                   halted, cacheVars, hookVars>>

\* A notification of a subscribed client reaches _handle_events.
notification(Frames) ==
    \E c \in notifying, data \in Frames :
    \E D \in {handle_events(data, Dispatch(ground, pants, acceleration, recentTile, hooks))} :
        LET spawned == IF D.spawn > 0 THEN tasks (+) One(NewTask("disconnect")) ELSE tasks
        IN  /\ BagCardinality(spawned) <= MaxTasks
            /\ tasks' = spawned
            /\ ground' = D.ground
            /\ pants' = D.pants
            /\ acceleration' = D.acceleration
            /\ recentTile' = D.recentTile
            /\ hooks' = D.hooks
            /\ last' = Did("_handle_events", "", data, D.res, NoIO, D.calls)
            /\ UNCHANGED <<run, autoReconnect, client, defaultVolume, linkUp, notifying,
                           failedScans, halted, regClock>>

---------------------------------------------------------------------------
\* The command methods, called by the user's code, and the tasks they make.

\* A call of a command method runs to its first await or to its end.
Called(op, arg, S) ==
    \E R \in {S} : Commit(R, Did(op, "call", arg, R.res, NoIO, <<>>))

\* A step of a task made for a command: reported whatever its outcome.
CommandStep(t, S, io) ==
    \E R \in {S} : Commit(R, Did(t.kind, t.pc, t.arg, R.res, io, <<>>))

call_request_port_value(Ports) ==
    \E port \in Ports :
        Called("request_port_value", <<port>>, request_port_value(Session(NoTask), port))

call_set_volume(Volumes) ==
    \E new_volume \in Volumes :
        Called("set_volume", <<new_volume>>, set_volume(Session(NoTask), new_volume))

call_port_setup(Ports) ==
    \E port \in Ports, mode \in {0}, notifications \in {TRUE} :
        Called("port_setup", <<port, mode, IF notifications THEN 1 ELSE 0>>,
               port_setup(Session(NoTask), port, mode, notifications))

call_turn_off ==
    Called("turn_off", <<>>, turn_off(Session(NoTask)))

\* await mario.disconnect() in the user's code.
call_disconnect ==
    Step(NewTask("disconnect"),
         disconnect([Session(NoTask) EXCEPT !.failedScans = Uncounted], NewTask("disconnect")),
         NoIO)

\* The task of a scheduled write (set_volume, port_setup): the write returns,
\* or raises in the task, where nothing catches it.
write_task(t) ==
    /\ t.kind = "write" /\ t.pc = "write"
    /\ CommandStep(t, IF t.c \in linkUp THEN Session(t)
                      ELSE [Session(t) EXCEPT !.res = "BleakError"],
                   IO("write", t.c, t.cmd))

\* request_port_value: its write returns, or raises and disconnect is awaited.
request_port_value_write(t) ==
    /\ t.kind = "request_port_value" /\ t.pc = "write"
    /\ CommandStep(t, IF t.c \in linkUp THEN Session(t) ELSE disconnect(Session(t), t),
                   IO("write", t.c, t.cmd))

\* turn_off: its write returns or raises; disconnect is awaited either way.
turn_off_write(t) ==
    /\ t.kind = "turn_off" /\ t.pc = "write"
    /\ CommandStep(t, disconnect(Session(t), t), IO("write", t.c, t.cmd))

---------------------------------------------------------------------------
\* The hook registries.

\* The hook put at the front of the list.
AddHook_front(H, cat, h) ==
    [hooks |-> [H.hooks EXCEPT ![cat] = <<[h |-> h, n |-> H.clock + 1]>> \o @],
     clock |-> H.clock + 1]

\* callable(funcs): list.append(funcs)
AddHook(H, cat, h) ==
    [hooks |-> [H.hooks EXCEPT ![cat] = Append(@, [h |-> h, n |-> H.clock + 1])],
     clock |-> H.clock + 1]

\* hasattr(funcs, '__iter__'): for hook_function in funcs: Add...Hook(hook_function)
RECURSIVE AddHooks(_, _, _, _)
AddHooks(H, cat, funcs, i) ==
    IF i > Len(funcs) THEN H
    ELSE AddHooks(AddHook(H, cat, funcs[i]), cat, funcs, i + 1)

\* The registries the constructor builds from its four arguments, each a
\* sequence of hooks: accelerometer, tile, pants, log.
ConstructorHooks(args) ==
    AddHooks(AddHooks(AddHooks(AddHooks([hooks |-> NoHooks, clock |-> 0],
                                        "acc", args.acc, 1),
                               "tile", args.tile, 1),
                      "pants", args.pants, 1),
             "log", args.log, 1)

Registered(H) ==
    /\ H.clock <= MaxRegs
    /\ hooks' = H.hooks
    /\ regClock' = H.clock
    /\ last' = Quiet
    /\ UNCHANGED <<sessionVars, cacheVars>>

\* Add<Category>Hook(h) with one callable.
add_hook ==
    \E cat \in Categories, h \in Hooks :
        Registered(AddHook([hooks |-> hooks, clock |-> regClock], cat, h))

\* Add<Category>Hook([h1, h2]) with a list of callables.
add_hooks ==
    \E cat \in Categories, h1 \in Hooks, h2 \in Hooks :
        Registered(AddHooks([hooks |-> hooks, clock |-> regClock], cat, <<h1, h2>>, 1))

\* RemoveEventsHook(h)
remove_events_hook ==
    \E h \in Hooks :
        /\ hooks' = RemoveEventsHook(hooks, h)
        /\ last' = Did("RemoveEventsHook", "call", <<h>>, "ok", NoIO, <<>>)
        /\ UNCHANGED <<sessionVars, cacheVars, regClock>>

---------------------------------------------------------------------------
\* The frames.

\* The frames of the session: hub actions.
HubActionFrames == {<<4, 0, 2, 49>>}

Frame(b2, b3, b4, b5, b6, b7) == <<10, 0, b2, b3, b4, b5, b6, b7, 0, 1>>

\* Whole frames of every kind _handle_events tells apart.
WholeFrames ==
    { Frame(69, 1, 184, 0, 0, 0),    \* a tile of the table
      Frame(69, 1, 2, 0, 0, 0),      \* a tile not in the table
      Frame(69, 1, 0, 255, 21, 0),   \* a ground colour of the table
      Frame(69, 1, 0, 255, 2, 0),    \* a ground colour not in the table
      Frame(69, 1, 0, 255, 255, 0),  \* camera idle
      Frame(69, 1, 0, 1, 0, 0),      \* camera, neither
      Frame(69, 0, 0, 127, 128, 0),  \* accelerometer
      Frame(69, 0, 255, 128, 1, 128),
      Frame(69, 0, 1, 2, 1, 2),      \* a gesture when cut to 8 bytes
      Frame(69, 2, 33, 0, 0, 0),     \* pants of the table
      Frame(69, 2, 7, 0, 0, 0),      \* pants not in the table
      Frame(69, 3, 19, 1, 184, 0),   \* port 3
      Frame(69, 3, 0, 0, 0, 0),
      Frame(69, 5, 0, 0, 0, 0),      \* another port
      Frame(2, 48, 0, 0, 0, 0),      \* hub will switch off
      Frame(4, 1, 1, 0, 0, 0),       \* attached
      Frame(4, 1, 0, 0, 0, 0),       \* detached
      Frame(71, 1, 0, 0, 0, 0),      \* port input format
      Frame(1, 6, 6, 0, 0, 0),       \* hub property
      Frame(1, 6, 0, 0, 0, 0),
      Frame(9, 0, 0, 0, 0, 0) }      \* unknown

\* The frames fed to the decoder: every whole frame, cut to every length.
CodecFrames == { SubSeq(f, 1, n) : f \in WholeFrames, n \in {2, 3, 4, 5, 6, 7, 8, 10} }

\* The frames fed to the hook registries: one of each hook category.
HookFrames ==
    { Frame(69, 1, 184, 0, 0, 0), Frame(69, 0, 0, 127, 128, 0), Frame(69, 2, 33, 0, 0, 0) }

---------------------------------------------------------------------------
\* The specifications.

\* Mario(...): the object as the constructor leaves it, connect() scheduled.
Constructed(volume, args) ==
    /\ run = FALSE
    /\ autoReconnect = TRUE
    /\ client = None
    /\ defaultVolume = volume
    /\ linkUp = {}
    /\ notifying = {}
    /\ tasks = One(NewTask("connect"))
    /\ failedScans = 0
    /\ halted = FALSE
    /\ ground = NoneStr
    /\ pants = NoneStr
    /\ acceleration = NoAcc
    /\ recentTile = NoneStr
    /\ hooks = ConstructorHooks(args).hooks
    /\ regClock = ConstructorHooks(args).clock
    /\ last = Quiet

\* The object once connect() has returned True: the client connected and
\* subscribed, check_connection_loop asleep.
Connected(volume, args) ==
    /\ run = TRUE
    /\ autoReconnect = TRUE
    /\ client = 1
    /\ defaultVolume = volume
    /\ linkUp = {1}
    /\ notifying = {1}
    /\ tasks = One(Task("check_connection_loop", "sleep", 0, None, <<>>, <<>>))
    /\ failedScans = Uncounted
    /\ halted = FALSE
    /\ ground = NoneStr
    /\ pants = NoneStr
    /\ acceleration = NoAcc
    /\ recentTile = NoneStr
    /\ hooks = ConstructorHooks(args).hooks
    /\ regClock = ConstructorHooks(args).clock
    /\ last = Quiet

NoArgs == [cat \in Categories |-> <<>>]

\* The session: the tasks of connect, check_connection_loop and disconnect,
\* the transport, the hub actions the device sends, the caller's disconnect().
Init == \E volume \in {NoVolume, 150} : Constructed(volume, NoArgs)

Next ==
    \/ \E t \in BagToSet(tasks) : connect_start(t)
    \/ \E t \in BagToSet(tasks) : connect_scan(t)
    \/ \E t \in BagToSet(tasks) : connect_conn(t)
    \/ \E t \in BagToSet(tasks) : connect_notify(t)
    \/ \E t \in BagToSet(tasks) : connect_subscribe(t)
    \/ \E t \in BagToSet(tasks) : check_connection_loop(t)
    \/ \E t \in BagToSet(tasks) : disconnect_start(t)
    \/ \E t \in BagToSet(tasks) : disconnect_write(t)
    \/ \E t \in BagToSet(tasks) : disconnect_disc(t)
    \/ \E t \in BagToSet(tasks) : write_task(t)
    \/ link_drop
    \/ disable_auto_reconnect
    \/ notification(HubActionFrames)
    \/ call_disconnect

Spec == Init /\ [][Next]_vars

\* The command methods, called on an object just constructed or connected,
\* with the tasks they make and the disconnects they lead to.  The connect
\* tasks those disconnects schedule are not run here.
Ports == -1..7
Volumes == {-5, 0, 50, 100, 101, 150}

InitCommands == Constructed(NoVolume, NoArgs) \/ Connected(NoVolume, NoArgs)

NextCommands ==
    \/ \E t \in BagToSet(tasks) : write_task(t)
    \/ \E t \in BagToSet(tasks) : request_port_value_write(t)
    \/ \E t \in BagToSet(tasks) : turn_off_write(t)
    \/ \E t \in BagToSet(tasks) : disconnect_write(t)
    \/ \E t \in BagToSet(tasks) : disconnect_disc(t)
    \/ \E t \in BagToSet(tasks) : check_connection_loop(t)
    \/ call_request_port_value(Ports)
    \/ call_set_volume(Volumes)
    \/ call_port_setup(Ports)
    \/ call_turn_off
    \/ link_drop
    \/ disable_auto_reconnect

SpecCommands == InitCommands /\ [][NextCommands]_vars

\* The decoder: frames of every kind and length reach _handle_events of a
\* connected object with hook A in each category.
OneEach == [cat \in Categories |-> <<"A">>]

InitFrames == Connected(NoVolume, OneEach)

NextFrames == notification(CodecFrames)

SpecFrames == InitFrames /\ [][NextFrames]_vars

\* The hook registries: hooks given to the constructor, added and removed,
\* and called for frames of each category.
InitHooks ==
    \E a \in {<<>>, <<"A">>, <<"B", "A">>} :
        Connected(NoVolume, [NoArgs EXCEPT !["tile"] = a])

NextHooks ==
    \/ add_hook
    \/ add_hooks
    \/ remove_events_hook
    \/ notification(HookFrames)

SpecHooks == InitHooks /\ [][NextHooks]_vars

\* The dispatch to hooks that may unregister themselves: the same list of up
\* to MaxListed hooks given to the constructor for each sensor category, and
\* frames of each category.
HookLists ==
    UNION { [1..n -> Hooks \cup SelfRemoving] : n \in 0..MaxListed }

InitDispatch ==
    \E a \in HookLists :
        Connected(NoVolume, [cat \in Categories |-> IF cat = "log" THEN <<>> ELSE a])

NextDispatch == notification(HookFrames)

SpecDispatch == InitDispatch /\ [][NextDispatch]_vars

\* The session of an object whose _autoReconnect the caller has set to False
\* before the connect() the constructor scheduled has started.
InitNoReconnect ==
    \E volume \in {NoVolume, 150} :
        /\ run = FALSE
        /\ autoReconnect = FALSE
        /\ client = None
        /\ defaultVolume = volume
        /\ linkUp = {}
        /\ notifying = {}
        /\ tasks = One(NewTask("connect"))
        /\ failedScans = 0
        /\ halted = FALSE
        /\ ground = NoneStr
        /\ pants = NoneStr
        /\ acceleration = NoAcc
        /\ recentTile = NoneStr
        /\ hooks = NoHooks
        /\ regClock = 0
        /\ last = Quiet

\* The places at which a task of the session can wait: a coroutine and the
\* await in it (or its start).
TaskPoints ==
    ({"connect"} \X {"start", "scan", "conn", "notify", "imu", "rgb", "pants", "d_write", "d_disc"})
      \cup ({"check_connection_loop"} \X {"start", "sleep", "d_write", "d_disc"})
      \cup ({"disconnect"} \X {"start", "d_write", "d_disc"})
      \cup {<<"write", "write">>}

\* The event loop runs every task that is ready, and every call of the
\* transport returns or raises: no step of a task is put off for ever.
TasksRun ==
    \A at \in TaskPoints : \A c \in {None} \cup Clients :
        WF_vars(\E t \in BagToSet(tasks) :
                    /\ <<t.kind, t.pc>> = at /\ t.c = c
                    /\ \/ connect_start(t) \/ connect_scan(t) \/ connect_conn(t)
                       \/ connect_notify(t) \/ connect_subscribe(t)
                       \/ check_connection_loop(t)
                       \/ disconnect_start(t) \/ disconnect_write(t) \/ disconnect_disc(t)
                       \/ write_task(t))

NextNoReconnect ==
    \/ \E t \in BagToSet(tasks) : connect_start(t)
    \/ \E t \in BagToSet(tasks) : connect_scan(t)
    \/ \E t \in BagToSet(tasks) : connect_conn(t)
    \/ \E t \in BagToSet(tasks) : connect_notify(t)
    \/ \E t \in BagToSet(tasks) : connect_subscribe(t)
    \/ \E t \in BagToSet(tasks) : check_connection_loop(t)
    \/ \E t \in BagToSet(tasks) : disconnect_start(t)
    \/ \E t \in BagToSet(tasks) : disconnect_write(t)
    \/ \E t \in BagToSet(tasks) : disconnect_disc(t)
    \/ \E t \in BagToSet(tasks) : write_task(t)
    \/ link_drop
    \/ notification(HubActionFrames)
    \/ call_disconnect

\* The session with every ready task run and every transport call answered.
\* The session from the moment connect() has returned True, auto-reconnect on:
\* the watch, the notifications of the hub and the drops of the connection,
\* with the disconnects and the connects they lead to, the tasks run fairly.
InitWatched == Connected(NoVolume, NoArgs)

NextWatched ==
    \/ \E t \in BagToSet(tasks) : connect_start(t)
    \/ \E t \in BagToSet(tasks) : connect_scan(t)
    \/ \E t \in BagToSet(tasks) : connect_conn(t)
    \/ \E t \in BagToSet(tasks) : connect_notify(t)
    \/ \E t \in BagToSet(tasks) : connect_subscribe(t)
    \/ \E t \in BagToSet(tasks) : check_connection_loop(t)
    \/ \E t \in BagToSet(tasks) : disconnect_start(t)
    \/ \E t \in BagToSet(tasks) : disconnect_write(t)
    \/ \E t \in BagToSet(tasks) : disconnect_disc(t)
    \/ link_drop
    \/ notification(HubActionFrames)

SpecWatched == InitWatched /\ [][NextWatched]_vars /\ TasksRun

SpecNoReconnect == InitNoReconnect /\ [][NextNoReconnect]_vars /\ TasksRun

---------------------------------------------------------------------------
\* The session.

\* C1: with auto-reconnect on and scans that never find a device, the scans
\* of the run are bounded: after the fourth failed scan there is no fifth.
C1_NoFifthScan == autoReconnect => failedScans <= 4

\* C2: at most one client is connected at any time: no client is connected
\* while an earlier one is still connected.
C2_OneLiveHandle == Cardinality(linkUp) <= 1

\* The session is stopped: disconnect() has cleared the run flag, which is
\* still clear, and there is no client.
Stopped == halted /\ ~run /\ client = None

\* The pcs at which a task waits for a call of the transport to return.
TransportPcs == {"scan", "conn", "notify", "imu", "rgb", "pants", "d_write", "d_disc", "write"}

\* The tasks of a bag that wait for a call of the transport.
InTransport(bag) == {t \in BagToSet(bag) : t.pc \in TransportPcs}

\* C12: once auto-reconnect is off and the session is stopped, it stays
\* stopped and no task makes a new call of the transport, whatever tasks were
\* scheduled before.
C12_StoppedIsTerminal ==
    [][(~autoReconnect /\ Stopped)
          => (Stopped' /\ InTransport(tasks') \subseteq InTransport(tasks))]_vars

\* Task t has taken the step: one copy of it has left the bag.
Stepped(t) == CopiesIn(t, tasks') < CopiesIn(t, tasks)

\* A connect() task has been scheduled by the step.
ConnectScheduled == CopiesIn(NewTask("connect"), tasks') > CopiesIn(NewTask("connect"), tasks)

\* C13: a disconnect that found a client writes the disconnect command, then,
\* whether or not the write failed, calls the transport's disconnect on that
\* client and clears self._client, then schedules connect() if auto-reconnect
\* is on and clears the run flag otherwise.
C13_DisconnectReleases ==
    [][\A t \in BagToSet(tasks) :
          /\ (t.pc = "d_write" /\ Stepped(t))
                => \E u \in BagToSet(tasks') :
                      u.kind = t.kind /\ u.pc = "d_disc" /\ u.c = t.c
          /\ (t.pc = "d_disc" /\ Stepped(t))
                => /\ client' = None
                   /\ t.c \notin linkUp'
                   /\ IF autoReconnect THEN ConnectScheduled ELSE ~run']_vars

\* The pcs of connect() between making its client and returning True.
ConnectingPcs == {"conn", "notify", "imu", "rgb", "pants"}

\* Task t has taken the step and goes on as task u, which is not a coroutine
\* the step has created.
GoesOn(t, u) ==
    /\ Stepped(t)
    /\ u.kind = t.kind /\ u # NewTask(t.kind)
    /\ CopiesIn(u, tasks') > CopiesIn(u, tasks)

\* Task t has taken its last step: it has returned or an exception has ended it.
Ended(t) == Stepped(t) /\ ~\E u \in BagToSet(tasks') : GoesOn(t, u)

\* The connect() task t, which has made a client, has ended without returning
\* True: its client.connect(), start_notify or a subscribe write had failed.
ConnectingFailed(t) ==
    /\ t.kind = "connect" /\ t.own # None
    /\ Ended(t)
    /\ ~(t.pc = "pants" /\ t.c \in linkUp)

\* C15: a connect() whose client.connect(), start_notify or subscribe write
\* fails ends with the client it made disconnected and self._client None, and
\* with connect() scheduled again if auto-reconnect is on, the run flag
\* cleared otherwise; and the failed step is never followed by the next step
\* of the sequence.
C15_ConnectingFailureHandled ==
    [][\A t \in BagToSet(tasks) :
          /\ ConnectingFailed(t)
                => /\ client' = None
                   /\ t.own \notin linkUp'
                   /\ IF autoReconnect THEN ConnectScheduled ELSE ~run'
          /\ (t.kind = "connect" /\ t.pc \in ConnectingPcs \ {"conn"} /\ t.c \notin linkUp)
                => \A u \in BagToSet(tasks') : GoesOn(t, u) => u.pc = "d_write"]_vars

---------------------------------------------------------------------------
\* The decoder and the dispatch to the hooks.

SensorCategories == {"tile", "acc", "pants"}

\* The last step was _handle_events(data) for a frame data.
Handled == last.op = "_handle_events"

\* The calls of the hooks of category cat made by the last step.
CallsOf(cat) == SelectSeq(last.calls, LAMBDA call : call.cat = cat)

\* C3: a frame shorter than 6 bytes makes _handle_events fail, calls no hook
\* and changes no cached value.
C3_ShortFrameRejected ==
    [][(Handled' /\ Len(last'.arg) < 6)
          => (last'.res # "ok" /\ last'.calls = <<>> /\ UNCHANGED cacheVars)]_vars

\* The name of the tile with code `code`: the table's, or the placeholder.
TileOf(code) ==
    IF code \in DOMAIN HEX_TO_RGB_TILE THEN HEX_TO_RGB_TILE[code]
    ELSE "Unkown Tile Code: " \o hex(code)

\* C4: a frame of 6 bytes or more with data[2] = 0x45, data[3] = 0x01 and
\* data[5] = 0x00 never raises and gives every tile hook exactly one call, with
\* the tile of data[4].
C4_TileFrameDelivered ==
    (Handled /\ Len(last.arg) >= 6 /\ At(last.arg, 2) = 69 /\ At(last.arg, 3) = 1
             /\ At(last.arg, 5) = 0)
        => /\ last.res = "ok"
           /\ Len(CallsOf("tile")) = Len(hooks["tile"])
           /\ \A i \in DOMAIN CallsOf("tile") :
                 /\ CallsOf("tile")[i].payload = TileOf(At(last.arg, 4))
                 /\ CallsOf("tile")[i].n = hooks["tile"][i].n

\* C5 as stated: every hook called for a tile, accelerometer or pants frame,
\* the log hooks too, finds the cached value already equal to the event's.
C5_EveryHookSeesNewValue ==
    \A i \in DOMAIN last.calls :
        last.calls[i].ev \in SensorCategories => last.calls[i].seen = last.calls[i].payload

\* C5 amended: every tile, accelerometer or pants hook that is called finds
\* self.ground, self.acceleration or self.pants already equal to the value it
\* is called with, and the frame leaves that value in the cache.
C5_CategoryHookSeesNewValue ==
    /\ \A i \in DOMAIN last.calls :
          last.calls[i].cat \in SensorCategories
             => /\ last.calls[i].ev = last.calls[i].cat
                /\ last.calls[i].seen = last.calls[i].payload
    /\ \A i \in DOMAIN last.calls :
          /\ last.calls[i].ev = "tile" => ground = last.calls[i].payload
          /\ last.calls[i].ev = "acc" => acceleration = last.calls[i].payload
          /\ last.calls[i].ev = "pants" => pants = last.calls[i].payload

\* A tile hook was called with the new tile in self.ground, after a log hook
\* that was called for the same frame and found the value before it.
C5_Witness ==
    \E i, j \in DOMAIN last.calls :
        /\ i < j
        /\ last.calls[i].cat = "log" /\ last.calls[i].ev = "tile"
        /\ last.calls[i].seen # last.calls[i].payload
        /\ last.calls[j].cat = "tile" /\ last.calls[j].payload = "Start"
        /\ last.calls[j].seen = "Start"

\* C10: the hooks of a category are called one after the other in the order
\* of their registration: the calls of an event are the category's registry,
\* entry by entry, and an earlier registration is called first.
C10_RegistrationOrder ==
    /\ \A cat \in Categories : \A i, j \in DOMAIN hooks[cat] :
          i < j => hooks[cat][i].n < hooks[cat][j].n
    /\ \A i, j \in DOMAIN last.calls :
          (i < j /\ last.calls[i].cat = last.calls[j].cat)
             => last.calls[i].n < last.calls[j].n
    /\ \A cat \in SensorCategories :
          (Handled /\ CallsOf(cat) # <<>>)
             => /\ Len(CallsOf(cat)) = Len(hooks[cat])
                /\ \A i \in DOMAIN hooks[cat] :
                      /\ CallsOf(cat)[i].h = hooks[cat][i].h
                      /\ CallsOf(cat)[i].n = hooks[cat][i].n

\* A tile frame was given to B then A, registered in that order by the
\* constructor, and then to a hook added later.
C10_Witness ==
    /\ Len(CallsOf("tile")) >= 3
    /\ CallsOf("tile")[1].h = "B"
    /\ CallsOf("tile")[2].h = "A"
    /\ CallsOf("tile")[1].n < CallsOf("tile")[2].n
    /\ CallsOf("tile")[2].n < CallsOf("tile")[3].n

\* The 8-bit two's complement value of a byte.
TwosComplement(b) == ((b + 128) % 256) - 128

Without(list, h) == SelectSeq(list, LAMBDA e : e.h # h)

\* C11: RemoveEventsHook(h) removes every registration of h, in every category
\* and however many there are, and nothing else: the other hooks stay, in
\* their order, and with h registered nowhere the lists are unchanged.
C11_UnregisterRemovesAll ==
    [][(last'.op = "RemoveEventsHook")
          => \A cat \in Categories : hooks'[cat] = Without(hooks[cat], last'.arg[1])]_vars

---------------------------------------------------------------------------
\* The command methods.

Call(op) == last.op = op /\ last.at = "call"

\* C6: request_port_value with a port outside (0,1,2,3,4,6) raises at once,
\* writes nothing and changes nothing, with or without a client; with a port
\* of the set and a connected client it makes one write, whose port byte is
\* the port, and returns without error.
C6_PortValidated ==
    [][/\ (Call("request_port_value")' /\ last'.arg[1] \notin {0, 1, 2, 3, 4, 6})
            => /\ last'.res = "AssertionError"
               /\ UNCHANGED <<sessionVars, cacheVars, hookVars>>
       /\ (Call("request_port_value")' /\ last'.arg[1] \in {0, 1, 2, 3, 4, 6}
             /\ client # None)
            => /\ last'.res = "ok"
               /\ \E t \in BagToSet(tasks') :
                     /\ tasks' = tasks (+) One(t)
                     /\ t.kind = "request_port_value" /\ t.pc = "write"
                     /\ t.c = client /\ t.arg = last'.arg
                     /\ Len(t.cmd) = 5 /\ At(t.cmd, 3) = last'.arg[1]
               /\ UNCHANGED <<run, client, linkUp, cacheVars, hookVars>>
       /\ (last'.op = "request_port_value" /\ last'.at = "write" /\ last'.io.c \in linkUp)
            => /\ last'.res = "ok"
               /\ last'.io.call = "write"
               /\ At(last'.io.cmd, 3) = last'.arg[1]
               /\ \E t \in BagToSet(tasks) :
                     /\ tasks' = tasks (-) One(t)
                     /\ t.kind = "request_port_value" /\ t.cmd = last'.io.cmd
               /\ UNCHANGED <<run, client, linkUp, cacheVars, hookVars>>
      ]_vars

\* request_port_value(5) on a connected object raised AssertionError.
C6_Witness ==
    /\ Call("request_port_value") /\ last.arg = <<5>> /\ last.res = "AssertionError"
    /\ client # None /\ client \in linkUp

\* C7: port_setup with a port outside (0,1,2,3,4,6) fails validation: nothing
\* is written or scheduled and nothing changes.
C7_PortSetupValidated ==
    [][(Call("port_setup")' /\ last'.arg[1] \notin {0, 1, 2, 3, 4, 6})
          => /\ last'.res = "ValidationError"
             /\ UNCHANGED <<sessionVars, cacheVars, hookVars>>]_vars

\* C8: with no client, request_port_value, set_volume, port_setup and turn_off
\* with valid arguments return without raising, write nothing and change nothing.
C8_NoClientNoOp ==
    [][(/\ client = None
        /\ last'.at = "call"
        /\ last'.op \in {"request_port_value", "set_volume", "port_setup", "turn_off"}
        /\ (last'.op \in {"request_port_value", "port_setup"}
               => last'.arg[1] \in {0, 1, 2, 3, 4, 6}))
          => /\ last'.res = "ok"
             /\ UNCHANGED <<sessionVars, cacheVars, hookVars>>]_vars

\* The set-volume command for a volume v, clamped to 0..100.
ClampedVolumeCommand(v) ==
    SubSeq(MUTE_COMMAND, 1, 5) \o <<IF v < 0 THEN 0 ELSE IF v > 100 THEN 100 ELSE v>>

\* C9: set_volume rejects no volume; with a client, the command it schedules
\* and the task then writes carries the volume clamped to 0..100.
C9_VolumeClamped ==
    /\ Call("set_volume")
          => /\ last.res = "ok"
             /\ client # None
                   => BagIn(Task("write", "write", 0, client,
                                 ClampedVolumeCommand(last.arg[1]), last.arg), tasks)
    /\ \A t \in BagToSet(tasks) :
          (t.kind = "write" /\ Len(t.arg) = 1) => t.cmd = ClampedVolumeCommand(t.arg[1])
    /\ (last.op = "write" /\ Len(last.arg) = 1)
          => /\ last.io.call = "write"
             /\ last.io.cmd = ClampedVolumeCommand(last.arg[1])

\* set_volume(150) was written to a connected client as volume 100.
C9_Witness ==
    /\ last.op = "write" /\ last.arg = <<150>> /\ last.res = "ok"
    /\ last.io.c \in linkUp
    /\ At(last.io.cmd, 5) = 100

---------------------------------------------------------------------------
\* The connecting sequence.

\* The step has scheduled task u.
Scheduled(u) == CopiesIn(u, tasks') > CopiesIn(u, tasks)

\* C16: a connect() that succeeds goes through its steps in order, none
\* skipped: client.connect() and self._client set, start_notify, the IMU, RGB
\* and pants subscribe writes, then check_connection_loop scheduled and
\* set_volume(defaultVolume) called if a default volume is given (it schedules
\* its write to self._client), and only then connect() returns.
C16_ConnectingOrder ==
    [][\A t \in BagToSet(tasks) : t.kind = "connect" =>
          /\ \A u \in BagToSet(tasks') : GoesOn(t, u) =>
                /\ t.pc \in {"start", "scan"} => u.pc \in {"scan", "conn", "d_write"}
                /\ t.pc = "conn" =>
                      /\ u.pc \in {"notify", "d_write"}
                      /\ u.pc = "notify" => (u.c = t.c /\ client' = t.c /\ t.c \in linkUp')
                /\ (t.pc = "notify" /\ t.c \in linkUp) =>
                      /\ u.pc = "imu" /\ u.c = t.c /\ u.cmd = SUBSCRIBE_IMU_COMMAND
                      /\ t.c \in notifying'
                /\ (t.pc = "imu" /\ t.c \in linkUp) =>
                      u.pc = "rgb" /\ u.c = t.c /\ u.cmd = SUBSCRIBE_RGB_COMMAND
                /\ (t.pc = "rgb" /\ t.c \in linkUp) =>
                      u.pc = "pants" /\ u.c = t.c /\ u.cmd = SUBSCRIBE_PANTS_COMMAND
          /\ (t.pc \in {"notify", "imu", "rgb"} /\ t.c \in linkUp /\ Stepped(t)) => ~Ended(t)
          /\ (t.pc \in {"imu", "rgb", "pants"} /\ t.c \in linkUp) => t.c \in notifying
          /\ (t.pc = "pants" /\ t.c \in linkUp /\ Stepped(t)) =>
                /\ Ended(t)
                /\ t.cmd = SUBSCRIBE_PANTS_COMMAND
                /\ Scheduled(NewTask("check_connection_loop"))
                /\ (defaultVolume # NoVolume /\ client # None) =>
                      Scheduled(Task("write", "write", 0, client,
                                     ClampedVolumeCommand(defaultVolume), <<defaultVolume>>))
                /\ defaultVolume = NoVolume =>
                      \A w \in BagToSet(tasks') : w.kind = "write" => ~Scheduled(w)]_vars

\* connect() has just returned True with a default volume of 150: the client
\* is connected and notifying, the watch and the write of volume 100 are
\* scheduled, and no connect() is left.
C16_Witness ==
    /\ client # None /\ client \in linkUp /\ client \in notifying
    /\ defaultVolume = 150
    /\ BagIn(NewTask("check_connection_loop"), tasks)
    /\ BagIn(Task("write", "write", 0, client, ClampedVolumeCommand(150), <<150>>), tasks)
    /\ \A t \in BagToSet(tasks) : t.kind # "connect"

\* The connect() task t returns True in the step: the session is connected.
ReturnsTrue(t) == t.kind = "connect" /\ t.pc = "pants" /\ t.c \in linkUp /\ Stepped(t)

GaveUp == Stopped /\ linkUp = {} /\ tasks = EmptyBag

\* C18: with auto-reconnect off and scans that find no device, connect() makes
\* exactly three scans: the third failed scan is followed at once by the pass
\* that gives up, which leaves the session stopped with no client and no task,
\* so no fourth scan; it does not stop after fewer scans, and it does not hang:
\* either some scan finds a device (or the caller disconnects) or the third
\* failed scan is reached.
C18_GivesUpAfterThreeScans ==
    /\ [](failedScans <= 3)
    /\ [](failedScans = 3 => GaveUp)
    /\ []((failedScans \in 0..2 /\ ~autoReconnect)
             => (~Stopped /\ \E t \in BagToSet(tasks) : t.kind = "connect"))
    /\ <>(failedScans = Uncounted \/ failedScans = 3)

\* Three scans have failed and the session is stopped.
C18_Witness == ~autoReconnect /\ failedScans = 3 /\ GaveUp /\ last = Quiet

\* The session is connected with client c: c is self._client and the connect()
\* that made it has returned.
Established(c) ==
    /\ client = c
    /\ \A t \in BagToSet(tasks) : t.kind = "connect" => t.own # c

\* The watch is running while the session is connected with c and the
\* connection of c is down.
WatchTrigger(c) ==
    /\ Established(c) /\ c \notin linkUp
    /\ \E t \in BagToSet(tasks) : t.kind = "check_connection_loop" /\ t.pc \in {"start", "sleep"}

\* A hub-will-disconnect frame has just been received, and its disconnect()
\* scheduled, while the session is connected with c.
FrameTrigger(c) ==
    /\ Established(c) /\ c \in notifying
    /\ last.op = "_handle_events" /\ SubSeq(last.arg, 3, 4) = <<2, 49>>
    /\ BagIn(NewTask("disconnect"), tasks)

\* The model is at its bound on tasks and a watch inside disconnect() waits
\* to schedule connect(): a state the program, whose event loop has no such
\* bound, need not stay in.
AtTaskBound ==
    /\ BagCardinality(tasks) >= MaxTasks
    /\ \E t \in BagToSet(tasks) :
          t.kind = "check_connection_loop" /\ t.pc \in {"d_write", "d_disc"}

\* The client c is released: disconnected and no longer self._client.
Released(c) == client # c /\ c \notin linkUp

\* C19: the watch, finding the client of the session not connected, runs
\* disconnect(); a hub action frame with action 0x31 schedules disconnect();
\* and in both cases the client is released in the end, the tasks being run
\* fairly.
C19_TriggersDisconnect ==
    /\ [][/\ \A t \in BagToSet(tasks) :
              (t.kind = "check_connection_loop" /\ t.pc \in {"start", "sleep"} /\ Stepped(t)
                 /\ client # None /\ client \notin linkUp)
                 => \E u \in BagToSet(tasks') :
                       /\ GoesOn(t, u) /\ u.pc = "d_write" /\ u.c = client
                       /\ u.cmd = DISCONNECT_COMMAND
          /\ (last'.op = "_handle_events" /\ SubSeq(last'.arg, 3, 4) = <<2, 49>>)
                 => Scheduled(NewTask("disconnect"))
          /\ (BagIn(NewTask("disconnect"), tasks) /\ Stepped(NewTask("disconnect"))
                 /\ client # None)
                 => \E u \in BagToSet(tasks') :
                       /\ GoesOn(NewTask("disconnect"), u) /\ u.pc = "d_write" /\ u.c = client
                       /\ u.cmd = DISCONNECT_COMMAND]_vars
    /\ \A c \in Clients : WatchTrigger(c) ~> (Released(c) \/ AtTaskBound)
    /\ \A c \in Clients : FrameTrigger(c) ~> (Released(c) \/ AtTaskBound)

---------------------------------------------------------------------------
\* Failed writes.

\* The pcs at which a task waits for a write to return.
WritePcs == {"write", "d_write"}

\* C20: a write of a command method or of disconnect() that fails ends in no
\* exception leaving its task: the failure is caught and disconnect() is
\* entered, so that the step leaves self._client None or the task writing the
\* disconnect command; and a disconnect() that finds self._client cleared by
\* another raises nothing either.
C20_FailedWriteHandled ==
    [][/\ last'.at \in WritePcs \cup {"d_disc"} => last'.res = "ok"
       /\ \A t \in BagToSet(tasks) :
             (t.pc \in WritePcs /\ t.c \notin linkUp /\ Stepped(t))
                => \/ client' = None
                   \/ \E u \in BagToSet(tasks') : u.pc = "d_write" /\ Scheduled(u)]_vars

---------------------------------------------------------------------------
\* The fan-out to the hooks.

\* The registrations of hook h in a list.
Count(list, h) == Len(SelectSeq(list, LAMBDA e : e.h = h))

\* The sensor category of a port value frame of the camera, the
\* accelerometer or the pants.
EventOf(data) ==
    CASE At(data, 3) = 1 -> "tile"
      [] At(data, 3) = 0 -> "acc"
      [] At(data, 3) = 2 -> "pants"

\* C21: for a tile, accelerometer or pants frame, of the sensor hooks only
\* those of its category are called and no registration is called twice; and every hook whose
\* registrations in the category are the same after the dispatch as before it
\* is called once for each of them, whatever other hooks do to the lists
\* while they are called.
C21_FanOutExactlyOnce ==
    [][(last'.op = "_handle_events" /\ last'.arg \in HookFrames) =>
          LET cat == EventOf(last'.arg)
              calls == SelectSeq(last'.calls, LAMBDA call : call.cat \in SensorCategories)
          IN  /\ last'.res = "ok"
              /\ \A i \in DOMAIN calls : calls[i].cat = cat
              /\ \A i, j \in DOMAIN calls : calls[i].n = calls[j].n => i = j
              /\ \A h \in Hooks \cup SelfRemoving :
                    Count(hooks'[cat], h) = Count(hooks[cat], h)
                       => Count(calls, h) = Count(hooks[cat], h)]_vars

---------------------------------------------------------------------------
\* The background tasks.

\* The tasks running the coroutine kind, each copy counted.
Running(kind) ==
    BagCardinality([t \in {u \in BagToSet(tasks) : u.kind = kind} |-> CopiesIn(t, tasks)])

\* C22: at any moment at most one connect() and at most one
\* check_connection_loop() are running, whatever the order in which the
\* watch, the hub's frames and the drops of the connection act.
C22_NoDuplicateTasks ==
    /\ Running("connect") <= 1
    /\ Running("check_connection_loop") <= 1

---------------------------------------------------------------------------
\* The frames with no sensor event.

\* data[4:6] == data[6:], the test _handle_events makes for a gesture.
GestureSlices(data) ==
    SubSeq(data, 5, IF Len(data) < 6 THEN Len(data) ELSE 6) = SubSeq(data, 7, Len(data))

\* The frame carries no sensor event: a camera idle frame, a gesture frame, a
\* frame of port 3 or of a port that is no sensor, or a frame that is no port
\* value (hub action, attached I/O, port input format, hub property, unknown).
NoSensorEvent(data) ==
    /\ Len(data) >= 4
    /\ \/ At(data, 2) # 69
       \/ At(data, 3) \notin {0, 1, 2}
       \/ At(data, 3) = 1 /\ Len(data) >= 7 /\ At(data, 5) = 255 /\ At(data, 6) = 255
       \/ At(data, 3) = 0 /\ GestureSlices(data)

\* The sensor categories whose hooks the last frame has called.
CategoriesCalled == {last.calls[i].cat : i \in DOMAIN last.calls} \cap SensorCategories

\* C23: a frame with no sensor event calls no tile, accelerometer or pants
\* hook and leaves self.ground, self.acceleration and self.pants as they were;
\* and no frame calls the hooks of more than one of the three categories.
C23_NoEventNoEffect ==
    [][Handled' =>
          /\ Cardinality(CategoriesCalled') <= 1
          /\ NoSensorEvent(last'.arg)
                => /\ CategoriesCalled' = {}
                   /\ UNCHANGED <<ground, acceleration, pants>>]_vars

\* A camera idle frame has been handled after a tile, an acceleration and
\* pants were stored: the log hook was called, no sensor hook, and the stored
\* values are still there.
C23_Witness ==
    /\ Handled /\ last.arg = Frame(69, 1, 0, 255, 255, 0) /\ last.res = "ok"
    /\ Len(CallsOf("log")) = 1 /\ CategoriesCalled = {}
    /\ ground # NoneStr /\ pants # NoneStr /\ acceleration # NoAcc

====
